---- MODULE Spec2Model ----
(***************************************************************************)
(* A model of streamlit_gradio.interface.Interface: construction           *)
(* (__init__, load, from_pipeline), the prediction pipeline (process,      *)
(* run_prediction) and the methods that enter it (__call__, predict_fn);   *)
(* and of the loaders of streamlit_gradio.external (load_interface,        *)
(* get_huggingface_interface, get_spaces_interface).                       *)
(*                                                                         *)
(* Python values that may have several types are records of one shape      *)
(* (PyVal); data flowing through the pipeline are symbolic terms in prefix *)
(* form (sequences of tokens), so that preprocess, serialize, the wrapped  *)
(* functions, deserialize and postprocess are all distinguishable.         *)
(* Durations are measured in integer clock ticks.                          *)
(***************************************************************************)
EXTENDS Integers, Sequences, FiniteSets, TLC

\* ------------------------------------------------------------------ bounds
CtorMaxFns == 3
CtorMaxIn == 2
CtorMaxOut == 3
MaxFns == 2
MaxCalls == 3

VARIABLES
    status,             \* "new" | "built" | "failed": outcome of the constructor call
    args,               \* the arguments the constructor was called with
    predict,            \* self.predict: the ordered list of wrapped functions
    input_components,   \* self.input_components
    output_components,  \* self.output_components
    interpretation,     \* self.interpretation
    predict_durations,  \* self.predict_durations: per function, a reference to a [sum, count] list
    cells,              \* the [sum, count] list objects, by reference
    allow_flagging,     \* self.allow_flagging
    api_mode,           \* self.api_mode
    callers,            \* the threads that call process() on the instance
    pc,                 \* per caller: its position inside process()
    lv,                 \* per caller: the local variables of process()/run_prediction()
    log,                \* per caller: the component/function calls made by its current process() call
    result,             \* per caller: what its last process() call returned
    remaining,          \* number of process() calls the callers will still make
    completed,          \* number of process() calls that returned
    own,                \* per function: total of its own measured durations over the calls that returned
    factory,            \* how the instance was made: "Interface" | "load" | "from_pipeline"
    config,             \* the configuration dictionary the UI holds for the instance
    finished,           \* number of invocations (process, predict_fn, __call__) that returned
    measured,           \* per function: total of its measured durations over those invocations
    loader,             \* the state of a load_interface() call
    http,               \* the HTTP requests issued so far, in order
    before,             \* per observed caller: the statistics when its current call began
    instances,          \* Interface.instances: the constructor calls whose instance is registered
    outcomes,           \* per constructor call: how it ended
    sim                 \* the state of a simulate() call of vanderpol.py

vars == <<status, args, predict, input_components, output_components, interpretation,
          predict_durations, cells, allow_flagging, api_mode, callers, pc, lv, log,
          result, remaining, completed, own, factory, config, finished, measured,
          loader, http, before, instances, outcomes, sim>>

\* what the calls on a built instance leave alone
registry == <<instances, outcomes>>
ext == <<factory, loader, http, before, registry, sim>>
tally == <<config, finished, measured>>

inst == <<predict, input_components, output_components, interpretation,
          allow_flagging, api_mode>>

\* ------------------------------------------------------------ Python values
PyNone == [t |-> "none", b |-> FALSE, n |-> 0, s |-> ""]
PyBool(x) == [t |-> "bool", b |-> x, n |-> 0, s |-> ""]
PyInt(x) == [t |-> "int", b |-> FALSE, n |-> x, s |-> ""]
PyStr(x) == [t |-> "str", b |-> FALSE, n |-> 0, s |-> x]

PyIsNumber(x) == x.t \in {"bool", "int"}
PyNumber(x) == IF x.t = "bool" THEN (IF x.b THEN 1 ELSE 0) ELSE x.n

\* Python ==: bool is a subclass of int (True == 1, False == 0); a str equals only a str.
PyEq(x, y) ==
    IF PyIsNumber(x) /\ PyIsNumber(y) THEN PyNumber(x) = PyNumber(y)
    ELSE x.t = y.t /\ x.s = y.s

\* str.lower() on the strings the model uses
Lower(s) ==
    CASE s = "Default" -> "default"
      [] s = "SHAP" -> "shap"
      [] s = "HuggingFace" -> "huggingface"
      [] s = "Models" -> "models"
      [] s = "Spaces" -> "spaces"
      [] OTHER -> s

\* list * k
RECURSIVE ListRepeat(_, _)
ListRepeat(l, k) == IF k <= 0 THEN <<>> ELSE l \o ListRepeat(l, k - 1)

\* `x if isinstance(x, list) else [x]'
AsList(x) == IF x.isList THEN x.items ELSE <<x.item>>

Range(f) == {f[i] : i \in DOMAIN f}

\* ------------------------------------------------ constructor arguments
FnNames == <<"f1", "f2", "f3", "f4">>
InNames == <<"i1", "i2", "i3">>
OutNames == <<"o1", "o2", "o3", "o4">>

Prefix(names, k) == [i \in 1..k |-> names[i]]

\* an argument that is either one object or a list of objects
Single(x) == [isList |-> FALSE, item |-> x, items |-> <<>>]
ListOf(l) == [isList |-> TRUE, item |-> "", items |-> l]

InterpNone == [kind |-> "none", s |-> "", items |-> <<>>]
InterpCallable == [kind |-> "callable", s |-> "", items |-> <<>>]
InterpStr(x) == [kind |-> "str", s |-> x, items |-> <<>>]
InterpList(l) == [kind |-> "list", s |-> "", items |-> l]
InterpOther == [kind |-> "other", s |-> "", items |-> <<>>]

EnvUnset == "<unset>"

\* os.getenv(name, default)
GetEnv(env, default) == IF env = EnvUnset THEN default ELSE env

DefaultArgs ==
    [fn |-> Single("f1"), inputs |-> Single("i1"), outputs |-> Single("o1"),
     repeat_outputs_per_model |-> TRUE, interpretation |-> InterpNone,
     allow_flagging |-> PyNone, env_allow_flagging |-> EnvUnset,
     api_mode |-> PyNone, theme |-> PyNone, examples |-> "none",
     analytics_enabled |-> PyBool(FALSE), env_analytics |-> EnvUnset]

\* ------------------------------------------------------------ __init__
\* inputs.get_input_instance / outputs.get_output_instance applied to an
\* already instantiated component return that same instance
get_input_instance(i) == i
get_output_instance(o) == o

\* lines 160-163: the output components, repeated once per function when
\* repeat_outputs_per_model is set
OutputsInterleaved(outs, nfn, repeat) ==
    IF repeat
    THEN [k \in 1..(Len(outs) * nfn) |-> outs[((k - 1) \div nfn) + 1]]
    ELSE outs

OutputsOnlyWhenMismatch(outs, nfn, repeat) ==
    IF repeat /\ Len(outs) % nfn # 0 THEN ListRepeat(outs, nfn) ELSE outs

OutputComponents(outs, nfn, repeat) ==
    IF repeat THEN ListRepeat(outs, nfn) ELSE outs

\* lines 165-170
Interpretation(interp, ins) ==
    IF interp.kind \in {"none", "list", "callable"}
    THEN [error |-> "", value |-> interp]
    ELSE IF interp.kind = "str"
    THEN [error |-> "", value |-> InterpList([i \in 1..Len(ins) |-> Lower(interp.s)])]
    ELSE [error |-> "ValueError", value |-> InterpNone]

\* line 173: `[[0, 0]] * len(fn)' is a list of len(fn) references to ONE
\* [sum, count] list object; the references are cell numbers
PredictDurations(nfn) == [i \in 1..nfn |-> 1]

NewCells(refs) == [r \in Range(refs) |-> [sum |-> 0, count |-> 0]]

\* lines 234-254
AllowFlaggingLenient(arg, env) ==
    LET af == IF arg.t = "none" THEN PyStr(GetEnv(env, "manual")) ELSE arg
    IN  IF PyEq(af, PyBool(TRUE)) THEN [error |-> "", value |-> "manual"]
        ELSE IF PyEq(af, PyStr("manual")) THEN [error |-> "", value |-> "manual"]
        ELSE IF PyEq(af, PyBool(FALSE)) THEN [error |-> "", value |-> "never"]
        ELSE IF PyEq(af, PyStr("never")) THEN [error |-> "", value |-> "never"]
        ELSE IF PyEq(af, PyStr("auto")) THEN [error |-> "", value |-> "auto"]
        ELSE [error |-> "", value |-> af.s]

AllowFlagging(arg, env) ==
    LET af == IF arg.t = "none" THEN PyStr(GetEnv(env, "manual")) ELSE arg
    IN  IF PyEq(af, PyBool(TRUE)) THEN [error |-> "", value |-> "manual"]
        ELSE IF PyEq(af, PyStr("manual")) THEN [error |-> "", value |-> "manual"]
        ELSE IF PyEq(af, PyBool(FALSE)) THEN [error |-> "", value |-> "never"]
        ELSE IF PyEq(af, PyStr("never")) THEN [error |-> "", value |-> "never"]
        ELSE IF PyEq(af, PyStr("auto")) THEN [error |-> "", value |-> "auto"]
        ELSE [error |-> "ValueError", value |-> ""]

\* the theme names of themes.THEMES, and THEMES.default
Themes == {"default", "huggingface", "dark"}
ThemeDefault == "default"

\* lines 201-205
Theme(arg) ==
    LET theme == IF arg.t # "none" THEN arg ELSE PyStr(ThemeDefault)
    IN  IF theme.t = "str" /\ theme.s \in Themes
        THEN [error |-> "", value |-> theme.s]
        ELSE [error |-> "ValueError", value |-> ""]

\* the kinds of examples argument: None, a directory name, an empty list, a
\* list of lists, a list of plain values, or something that is no list
ExampleKinds == {"none", "str", "empty", "nested", "flat", "other"}

\* lines 218-224
Examples(kind, ins) ==
    IF kind \in {"none", "str", "empty", "nested"} THEN [error |-> "", value |-> kind]
    ELSE IF kind = "flat" /\ Len(ins) = 1 THEN [error |-> "", value |-> "nested"]
    ELSE [error |-> "ValueError", value |-> ""]

\* line 233
AnalyticsEnabled(arg, env) ==
    IF arg.t # "none" THEN PyEq(arg, PyBool(TRUE)) ELSE GetEnv(env, "True") = "True"

\* lines 293-295: the api_mode argument only triggers a deprecation warning
ApiModeFromArgument(arg) == arg = PyBool(TRUE)

ApiMode(arg) == FALSE

\* Interface.__init__: the instance it builds, or the error it raises. The
\* attributes are assigned in the order of the source, so an error leaves the
\* later ones unset; a failed construction yields no instance at all.
InterfaceInit(a) ==
    LET fn == AsList(a.fn)
        ins == AsList(a.inputs)
        outs == AsList(a.outputs)
        ic == [i \in 1..Len(ins) |-> get_input_instance(ins[i])]
        oc == OutputComponents([i \in 1..Len(outs) |-> get_output_instance(outs[i])],
                               Len(fn), a.repeat_outputs_per_model)
        ip == Interpretation(a.interpretation, ic)
        th == Theme(a.theme)
        ex == Examples(a.examples, ic)
        af == AllowFlagging(a.allow_flagging, a.env_allow_flagging)
        error == IF ip.error # "" THEN ip.error
                 ELSE IF th.error # "" THEN th.error
                 ELSE IF ex.error # "" THEN ex.error
                 ELSE af.error
    IN  [error |-> error,
         analytics_enabled |-> AnalyticsEnabled(a.analytics_enabled, a.env_analytics),
         predict |-> fn,
         input_components |-> ic,
         output_components |-> oc,
         interpretation |-> ip.value,
         predict_durations |-> PredictDurations(Len(fn)),
         allow_flagging |-> af.value,
         api_mode |-> ApiMode(a.api_mode)]

\* Interface.load (lines 68-72): construct from the loaded description merged
\* with the caller's keyword arguments, then set api_mode
InterfaceLoad(a) == [InterfaceInit(a) EXCEPT !.api_mode = TRUE]

\* Interface.from_pipeline (lines 86-89): construct, nothing more
InterfaceFromPipeline(a) == InterfaceInit(a)

\* an optional value: dict.get(key) of a key that may be missing
Absent == [present |-> FALSE, value |-> <<>>]
Some(v) == [present |-> TRUE, value |-> v]

\* utils.get_config_file(interface): the dictionary has no "avg_durations" key
ConfigFile == [avg_durations |-> Absent]

\* ---------------------------------------------------------- external.py
\* repos (lines 235-240): the loader registered for each source
Repos ==
    [huggingface |-> "get_huggingface_interface",
     models |-> "get_huggingface_interface",
     spaces |-> "get_spaces_interface"]

\* the keys of `pipelines' (lines 30-152)
Pipelines ==
    {"audio-classification", "automatic-speech-recognition", "feature-extraction",
     "fill-mask", "image-classification", "question-answering", "summarization",
     "text-classification", "text-generation", "text2text-generation", "translation",
     "zero-shot-classification", "sentence-similarity", "text-to-speech",
     "text-to-image"}

\* the tasks whose preprocess returns bytes, not a dict (lines 36, 44, 64)
BinaryTasks == {"audio-classification", "automatic-speech-recognition",
                "image-classification"}

\* lines 14-17: the headers of the registry loader's requests
HeadersWhenTruthy(api_key) ==
    IF api_key # PyNone /\ api_key.s # "" THEN Some(<<"Bearer", api_key.s>>) ELSE Absent

Headers(api_key) ==
    IF api_key # PyNone THEN Some(<<"Bearer", api_key.s>>) ELSE Absent

\* lines 161-164: the body of the inference request
Payload(task, params) ==
    LET data == <<"preprocess", task>> \o params
    IN  IF task \in BinaryTasks THEN data
        ELSE <<"json.dumps", "options.wait_for_model">> \o data

\* line 168
PostprocessResponse(task, payload) == <<"postprocess", task, "response to">> \o payload

HttpRequest(method, url, auth, data) ==
    [method |-> method, url |-> url, auth |-> auth, data |-> data]

\* an HTTP exchange without a response: requests raised ConnectionError
Unreachable == 0

NoInfo == [present |-> FALSE, fn |-> "", task |-> "", title |-> <<>>, outputs |-> 0]
NoReply == [status |-> -1, body |-> ""]
\* what the function of a space returns: the response's "data" list (level
\* 0), its first element (level 1), or that element's first element (level 2)
NoValue == [level |-> -1, list |-> <<>>, elem |-> Single(""), item |-> ""]
Whole(d) == [NoValue EXCEPT !.level = 0, !.list = d]
Element(e) == [NoValue EXCEPT !.level = 1, !.elem = e]
Inner(x) == [NoValue EXCEPT !.level = 2, !.item = x]

NoInvocation == [state |-> "none", params |-> <<>>, output |-> <<>>,
                 postprocessed |-> FALSE, reply |-> NoReply, data |-> <<>>,
                 value |-> NoValue]

\* no load_interface() call is under way
NoLoad ==
    [pc |-> "idle", name |-> <<>>, src |-> PyNone, api_key |-> PyNone, optimize |-> FALSE,
     handler |-> "", model_name |-> <<>>, error |-> "", info |-> NoInfo,
     reply |-> NoReply, invocations |-> 0, last |-> NoInvocation]

\* ------------------------------------------------------------ components
\* Values are terms in prefix form: a sequence of tokens.
None == <<"None">>

\* The built-in text components convert a string to itself; every other
\* component is opaque and its conversions are kept symbolic.
TextComponents == {"in_text", "out_text"}

preprocess(c, v) == IF c \in TextComponents THEN v ELSE <<"preprocess", c>> \o v
postprocess(c, v) == IF c \in TextComponents THEN v ELSE <<"postprocess", c>> \o v
serialize(c, v, called_directly) ==
    IF c \in TextComponents THEN v
    ELSE <<"serialize", c, IF called_directly THEN "direct" ELSE "ui">> \o v
deserialize(c, v) == IF c \in TextComponents THEN v ELSE <<"deserialize", c>> \o v

\* str.upper() on the strings the model uses
Upper(s) == CASE s = "abc" -> "ABC" [] OTHER -> s

RECURSIVE Flatten(_)
Flatten(l) == IF l = <<>> THEN <<>> ELSE Head(l) \o Flatten(Tail(l))

\* the value a wrapped function computes from its arguments
Apply(f, xs) ==
    IF f = "upper" THEN <<Upper(xs[1][1])>>
    ELSE <<f, "(">> \o Flatten(xs) \o <<")">>

ElemNames == <<"#1", "#2", "#3", "#4">>

\* what a call of f returns: one value, or a sequence of `n' values; the
\* positions in `nulls' are None
ReturnValue(f, xs, wrap, n, nulls) ==
    IF wrap THEN <<IF 1 \in nulls THEN None ELSE Apply(f, xs)>>
    ELSE [k \in 1..n |-> IF k \in nulls THEN None ELSE Apply(f, xs) \o <<ElemNames[k]>>]

Event(op, who, arg) == [op |-> op, who |-> who, arg |-> arg]

\* ------------------------------------------------- the pipeline's functions
\* the clock ticks one call of a function may be measured to take
Durations == {1, 2}

\* the lengths of the sequences a function returns when it returns a sequence
RetLens == {1, 2}

\* the wrapped functions that may return None
Nullable == {"f1"}

\* lines 404-406
PreprocessAll(ics, raw) == [i \in 1..Len(ics) |-> preprocess(ics[i], raw[i])]

PreprocessEvents(ics, raw) ==
    [i \in 1..Len(ics) |-> Event("preprocess", ics[i], <<raw[i]>>)]

\* lines 359-361
SerializeAlways(api, ics, xs, called_directly) ==
    [i \in 1..Len(ics) |-> serialize(ics[i], xs[i], called_directly)]

SerializeInputs(api, ics, xs, called_directly) ==
    IF api THEN [i \in 1..Len(ics) |-> serialize(ics[i], xs[i], called_directly)]
    ELSE xs

SerializeEvents(api, ics, xs) ==
    IF api THEN [i \in 1..Len(ics) |-> Event("serialize", ics[i], <<xs[i]>>)]
    ELSE <<>>

\* line 371
Wrap(ocs, fns) == Len(ocs) = Len(fns)

\* lines 374-379
DeserializeAll(api, ocs, counter, ret) ==
    IF api THEN [k \in 1..Len(ret) |-> deserialize(ocs[counter + k], ret[k])]
    ELSE ret

DeserializeEventsPerFunction(api, ocs, counter, ret) ==
    IF api THEN [k \in 1..Len(ret) |-> Event("deserialize", ocs[k], <<ret[k]>>)]
    ELSE <<>>

DeserializeEvents(api, ocs, counter, ret) ==
    IF api THEN [k \in 1..Len(ret) |-> Event("deserialize", ocs[counter + k], <<ret[k]>>)]
    ELSE <<>>

\* lines 409-410
PostprocessNulls(ocs, preds) ==
    [j \in 1..Len(ocs) |-> postprocess(ocs[j], preds[j])]

PostprocessAll(ocs, preds) ==
    [j \in 1..Len(ocs) |->
        IF preds[j] # None THEN postprocess(ocs[j], preds[j]) ELSE None]

PostprocessEventsAll(ocs, preds) ==
    [j \in 1..Len(ocs) |-> Event("postprocess", ocs[j], <<preds[j]>>)]

PostprocessEvents(ocs, preds) ==
    LET ev == [j \in 1..Len(ocs) |-> Event("postprocess", ocs[j], <<preds[j]>>)]
        js == SelectSeq([j \in 1..Len(ocs) |-> j], LAMBDA j : preds[j] # None)
    IN  [k \in 1..Len(js) |-> ev[js[k]]]

\* line 414: `+= duration'
ReplaceDuration(old, duration) == duration

AddDuration(old, duration) == old + duration

\* lines 416-417: sum / count, kept as the fraction
RunningMean(cell) == [num |-> cell.sum, den |-> cell.count]

\* ------------------------------------------------------------ process()
RawNames == <<"x1", "x2", "x3">>

RawInput(ics) ==
    [i \in 1..Len(ics) |-> IF ics[i] \in TextComponents THEN <<"abc">> ELSE <<RawNames[i]>>]

BlankLocals ==
    [raw_input |-> <<>>, processed_input |-> <<>>, run_input |-> <<>>,
     predictions |-> <<>>, durations |-> <<>>, counter |-> 0, fi |-> 0,
     processed_output |-> <<>>, avg_durations |-> <<>>, i |-> 0, reg |-> 0,
     entry |-> "", in_process |-> FALSE, called_directly |-> FALSE]

\* `output[0] if len(output) == 1 else output' (line 321)
NoOutput == [single |-> FALSE, item |-> <<>>, items |-> <<>>]
Unwrap(output) ==
    IF Len(output) = 1 THEN [single |-> TRUE, item |-> output[1], items |-> <<>>]
    ELSE [single |-> FALSE, item |-> <<>>, items |-> output]

\* the dictionary predict_fn returns (lines 452-457)
NoResponse ==
    [data |-> <<>>, durations |-> <<>>, avg_durations |-> Absent, flag_index |-> Absent]

\* state: the outcome of process(); outer: the outcome of the method the
\* caller invoked (process, predict_fn or __call__)
NoResult ==
    [state |-> "none", processed_output |-> <<>>, durations |-> <<>>,
     processed_input |-> <<>>, predictions |-> <<>>, avg_durations |-> <<>>,
     outer |-> "none", output |-> NoOutput, response |-> NoResponse]

\* the error leaves process() and the method that called it
Raised(error) == [NoResult EXCEPT !.state = error, !.outer = error]

\* the wrapped functions that may raise
Raising == {"f_raise"}

\* the components whose preprocess or postprocess may raise
RaisingComponents == {"i_raise", "o_raise"}

MayRaise(components) ==
    IF \E i \in 1..Len(components) : components[i] \in RaisingComponents
    THEN BOOLEAN ELSE {FALSE}

\* lines 366-382 have no try/except: the error a function raises is the
\* error the call ends with
PropagateReplaced(error) == "RuntimeError"

Propagate(error) == error

\* the attributes __init__ assigns (lines 160-295); neither `interface' nor
\* `config' is among them, and no other method assigns them
InstanceAttributes ==
    {"input_components", "output_components", "interpretation", "predict",
     "predict_durations", "allow_flagging", "flagging_options", "flagging_callback",
     "flagging_dir", "analytics_enabled", "api_mode"}

HasAttr(name) == name \in InstanceAttributes

\* what the flagging sink's flag() may return
FlagIndexes == {0, 1}

\* the statistics as an observed caller finds them when its call begins
Snapshot(t) == IF t \in DOMAIN before THEN [before EXCEPT ![t] = cells] ELSE before

\* a caller invokes process(raw_input)
Call(t) ==
    /\ t \in callers
    /\ status = "built"
    /\ pc[t] = "idle"
    /\ remaining > 0
    /\ remaining' = remaining - 1
    /\ pc' = [pc EXCEPT ![t] = "preprocess"]
    /\ lv' = [lv EXCEPT ![t] = [BlankLocals EXCEPT !.raw_input = RawInput(input_components),
                                                  !.entry = "process",
                                                  !.in_process = TRUE]]
    /\ log' = [log EXCEPT ![t] = <<Event("enter", "process", RawInput(input_components))>>]
    /\ result' = [result EXCEPT ![t] = NoResult]
    /\ UNCHANGED <<status, args, inst, predict_durations, cells, callers, completed, own>>
    /\ before' = Snapshot(t)
    /\ UNCHANGED <<factory, loader, http, registry, sim, tally>>

\* lines 341-421 assign no attribute of the instance but the statistics
PreprocessReconfiguring(t) ==
    /\ t \in callers
    /\ pc[t] = "preprocess"
    /\ \E raises \in MayRaise(input_components) :
         IF raises
         THEN /\ lv' = [lv EXCEPT ![t] = BlankLocals]
              /\ pc' = [pc EXCEPT ![t] = "idle"]
              /\ result' = [result EXCEPT ![t] = Raised(Propagate("ComponentError"))]
              /\ UNCHANGED log
         ELSE /\ lv' = [lv EXCEPT ![t].processed_input =
                                     PreprocessAll(input_components, lv[t].raw_input)]
              /\ log' = [log EXCEPT ![t] = @ \o PreprocessEvents(input_components,
                                                                  lv[t].raw_input)]
              /\ pc' = [pc EXCEPT ![t] = "run_prediction"]
              /\ UNCHANGED result
    /\ allow_flagging' = "never"
    /\ UNCHANGED <<status, args, predict, input_components, output_components,
                   interpretation, api_mode, predict_durations, cells, callers,
                   remaining, completed, own>>
    /\ UNCHANGED <<ext, tally>>

\* lines 404-406
Preprocess(t) ==
    /\ t \in callers
    /\ pc[t] = "preprocess"
    /\ \E raises \in MayRaise(input_components) :
         IF raises
         THEN /\ lv' = [lv EXCEPT ![t] = BlankLocals]
              /\ pc' = [pc EXCEPT ![t] = "idle"]
              /\ result' = [result EXCEPT ![t] = Raised(Propagate("ComponentError"))]
              /\ UNCHANGED log
         ELSE /\ lv' = [lv EXCEPT ![t].processed_input =
                                     PreprocessAll(input_components, lv[t].raw_input)]
              /\ log' = [log EXCEPT ![t] = @ \o PreprocessEvents(input_components,
                                                                  lv[t].raw_input)]
              /\ pc' = [pc EXCEPT ![t] = "run_prediction"]
              /\ UNCHANGED result
    /\ UNCHANGED <<status, args, inst, predict_durations, cells, callers,
                   remaining, completed, own>>
    /\ UNCHANGED <<ext, tally>>

\* lines 359-364: run_prediction(processed_input, return_duration=True)
RunPrediction(t) ==
    /\ t \in callers
    /\ pc[t] = "run_prediction"
    /\ lv' = [lv EXCEPT ![t].run_input =
                            SerializeInputs(api_mode, input_components,
                                            lv[t].processed_input,
                                            lv[t].called_directly),
                        ![t].predictions = <<>>,
                        ![t].durations = <<>>,
                        ![t].counter = 0,
                        ![t].fi = 1]
    /\ log' = [log EXCEPT ![t] = @ \o SerializeEvents(api_mode, input_components,
                                                      lv[t].processed_input)]
    /\ pc' = [pc EXCEPT ![t] = "predict_fn"]
    /\ UNCHANGED <<status, args, inst, predict_durations, cells, callers, result,
                   remaining, completed, own>>
    /\ UNCHANGED <<ext, tally>>

\* lines 366-382: one iteration of `for predict_fn in self.predict'
PredictFn(t) ==
    /\ t \in callers
    /\ pc[t] = "predict_fn"
    /\ LET l == lv[t]
           f == predict[l.fi]
           wrap == Wrap(output_components, predict)
       IN  \E duration \in Durations, n \in (IF wrap THEN {1} ELSE RetLens) :
           \E nulls \in (IF f \in Nullable THEN SUBSET (1..n) ELSE {{}}),
              raises \in (IF f \in Raising THEN BOOLEAN ELSE {FALSE}) :
             LET ret == ReturnValue(f, l.run_input, wrap, n, nulls)
                 fits == ~api_mode \/ l.counter + Len(ret) <= Len(output_components)
                 last == l.fi = Len(predict)
             IN  IF raises
                 THEN /\ lv' = [lv EXCEPT ![t] = BlankLocals]
                      /\ log' = [log EXCEPT ![t] = @ \o <<Event("call", f, l.run_input),
                                                            Event("raise", f, <<>>)>>]
                      /\ pc' = [pc EXCEPT ![t] = "idle"]
                      /\ result' = [result EXCEPT ![t] = Raised(Propagate("FnError"))]
                 ELSE IF fits
                 THEN /\ lv' = [lv EXCEPT
                                  ![t].predictions = @ \o DeserializeAll(api_mode,
                                        output_components, l.counter, ret),
                                  ![t].durations = Append(@, duration),
                                  ![t].counter = IF api_mode THEN @ + Len(ret) ELSE @,
                                  ![t].fi = @ + 1]
                      /\ log' = [log EXCEPT ![t] =
                                     (@ \o <<Event("call", f, l.run_input),
                                              Event("return", f, ret)>>)
                                     \o DeserializeEvents(api_mode, output_components,
                                                          l.counter, ret)]
                      /\ pc' = [pc EXCEPT ![t] =
                                    IF ~last THEN "predict_fn"
                                    ELSE IF l.in_process THEN "postprocess"
                                    ELSE "call_return"]
                      /\ UNCHANGED result
                 ELSE /\ lv' = [lv EXCEPT ![t] = BlankLocals]
                      /\ log' = [log EXCEPT ![t] = Append(@, Event("call", f, l.run_input))]
                      /\ pc' = [pc EXCEPT ![t] = "idle"]
                      /\ result' = [result EXCEPT ![t] = Raised("IndexError")]
    /\ UNCHANGED <<status, args, inst, predict_durations, cells, callers,
                   remaining, completed, own>>
    /\ UNCHANGED <<ext, tally>>

\* lines 409-417: the statistics are updated after every output was
\* postprocessed, never before
PostprocessCounting(t) ==
    /\ t \in callers
    /\ pc[t] = "postprocess"
    /\ \E raises \in MayRaise(output_components) :
         IF Len(lv[t].predictions) >= Len(output_components) /\ ~raises
         THEN /\ lv' = [lv EXCEPT ![t].processed_output =
                                     PostprocessAll(output_components, lv[t].predictions),
                                  ![t].i = 1]
              /\ log' = [log EXCEPT ![t] = @ \o PostprocessEvents(output_components,
                                                                  lv[t].predictions)]
              /\ pc' = [pc EXCEPT ![t] = "read_sum"]
              /\ UNCHANGED <<result, cells>>
         ELSE /\ lv' = [lv EXCEPT ![t] = BlankLocals]
              /\ pc' = [pc EXCEPT ![t] = "idle"]
              /\ result' = [result EXCEPT ![t] =
                               Raised(IF raises THEN Propagate("ComponentError")
                                      ELSE "IndexError")]
              /\ cells' = [c \in DOMAIN cells |->
                              [sum |-> AddDuration(cells[c].sum, lv[t].durations[1]),
                               count |-> cells[c].count + 1]]
              /\ UNCHANGED log
    /\ UNCHANGED <<status, args, inst, predict_durations, callers,
                   remaining, completed, own>>
    /\ UNCHANGED <<ext, tally>>

\* lines 409-410
Postprocess(t) ==
    /\ t \in callers
    /\ pc[t] = "postprocess"
    /\ \E raises \in MayRaise(output_components) :
         IF Len(lv[t].predictions) >= Len(output_components) /\ ~raises
         THEN /\ lv' = [lv EXCEPT ![t].processed_output =
                                     PostprocessAll(output_components, lv[t].predictions),
                                  ![t].i = 1]
              /\ log' = [log EXCEPT ![t] = @ \o PostprocessEvents(output_components,
                                                                  lv[t].predictions)]
              /\ pc' = [pc EXCEPT ![t] = "read_sum"]
              /\ UNCHANGED <<result, cells>>
         ELSE /\ lv' = [lv EXCEPT ![t] = BlankLocals]
              /\ pc' = [pc EXCEPT ![t] = "idle"]
              /\ result' = [result EXCEPT ![t] =
                               Raised(IF raises THEN Propagate("ComponentError")
                                      ELSE "IndexError")]
              /\ UNCHANGED <<log, cells>>
    /\ UNCHANGED <<status, args, inst, predict_durations, callers,
                   remaining, completed, own>>
    /\ UNCHANGED <<ext, tally>>

\* line 414, `self.predict_durations[i][0] += duration': the read ...
ReadSum(t) ==
    /\ t \in callers
    /\ pc[t] = "read_sum"
    /\ lv' = [lv EXCEPT ![t].reg = cells[predict_durations[lv[t].i]].sum]
    /\ pc' = [pc EXCEPT ![t] = "write_sum"]
    /\ UNCHANGED <<status, args, inst, predict_durations, cells, callers, log, result,
                   remaining, completed, own>>
    /\ UNCHANGED <<ext, tally>>

\* ... and the write
WriteSum(t) ==
    /\ t \in callers
    /\ pc[t] = "write_sum"
    /\ cells' = [cells EXCEPT ![predict_durations[lv[t].i]].sum =
                                  AddDuration(lv[t].reg, lv[t].durations[lv[t].i])]
    /\ pc' = [pc EXCEPT ![t] = "read_count"]
    /\ UNCHANGED <<status, args, inst, predict_durations, callers, lv, log, result,
                   remaining, completed, own>>
    /\ UNCHANGED <<ext, tally>>

\* line 415, `self.predict_durations[i][1] += 1': the read ...
ReadCount(t) ==
    /\ t \in callers
    /\ pc[t] = "read_count"
    /\ lv' = [lv EXCEPT ![t].reg = cells[predict_durations[lv[t].i]].count]
    /\ pc' = [pc EXCEPT ![t] = "write_count"]
    /\ UNCHANGED <<status, args, inst, predict_durations, cells, callers, log, result,
                   remaining, completed, own>>
    /\ UNCHANGED <<ext, tally>>

\* ... and the write
WriteCount(t) ==
    /\ t \in callers
    /\ pc[t] = "write_count"
    /\ cells' = [cells EXCEPT ![predict_durations[lv[t].i]].count = lv[t].reg + 1]
    /\ pc' = [pc EXCEPT ![t] = "append_avg"]
    /\ UNCHANGED <<status, args, inst, predict_durations, callers, lv, log, result,
                   remaining, completed, own>>
    /\ UNCHANGED <<ext, tally>>

\* lines 416-417, and the next iteration of the loop of line 413
AppendAvg(t) ==
    /\ t \in callers
    /\ pc[t] = "append_avg"
    /\ lv' = [lv EXCEPT ![t].avg_durations =
                            Append(@, RunningMean(cells[predict_durations[lv[t].i]])),
                        ![t].i = @ + 1]
    /\ pc' = [pc EXCEPT ![t] = IF lv[t].i < Len(lv[t].durations) THEN "read_sum" ELSE "return"]
    /\ UNCHANGED <<status, args, inst, predict_durations, cells, callers, log, result,
                   remaining, completed, own>>
    /\ UNCHANGED <<ext, tally>>

\* lines 418-421: process() returns to the method that called it
Return(t) ==
    /\ t \in callers
    /\ pc[t] = "return"
    /\ config' = IF HasAttr("config")
                 THEN [config EXCEPT !.avg_durations = Some(lv[t].avg_durations)]
                 ELSE config
    /\ result' = [result EXCEPT ![t] =
                     [NoResult EXCEPT
                        !.state = "returned",
                        !.processed_output = lv[t].processed_output,
                        !.durations = lv[t].durations,
                        !.processed_input = lv[t].processed_input,
                        !.predictions = lv[t].predictions,
                        !.avg_durations = lv[t].avg_durations,
                        !.outer = IF lv[t].entry = "process" THEN "returned" ELSE "none"]]
    /\ completed' = completed + 1
    /\ own' = [i \in DOMAIN own |-> own[i] + lv[t].durations[i]]
    /\ IF lv[t].entry = "process"
       THEN /\ finished' = finished + 1
            /\ measured' = [i \in DOMAIN measured |-> measured[i] + lv[t].durations[i]]
       ELSE UNCHANGED <<finished, measured>>
    /\ lv' = [lv EXCEPT ![t] = [BlankLocals EXCEPT !.entry = lv[t].entry]]
    /\ pc' = [pc EXCEPT ![t] =
                 CASE lv[t].entry = "process" -> "idle"
                   [] lv[t].entry = "predict_fn" -> "flag"
                   [] OTHER -> "call_return"]
    /\ UNCHANGED <<status, args, inst, predict_durations, cells, callers, log, remaining>>
    /\ UNCHANGED ext

\* ------------------------------------------------- __call__ and predict_fn
\* lines 316-319: instance(*params)
DirectCall(t) ==
    /\ t \in callers
    /\ status = "built"
    /\ pc[t] = "idle"
    /\ remaining > 0
    /\ remaining' = remaining - 1
    /\ IF api_mode
       THEN \* self.run_prediction(params, called_directly=True)
            /\ lv' = [lv EXCEPT ![t] =
                         [BlankLocals EXCEPT !.raw_input = RawInput(input_components),
                                             !.processed_input = RawInput(input_components),
                                             !.entry = "__call__",
                                             !.called_directly = TRUE]]
            /\ pc' = [pc EXCEPT ![t] = "run_prediction"]
       ELSE \* self.process(params)
            /\ lv' = [lv EXCEPT ![t] =
                         [BlankLocals EXCEPT !.raw_input = RawInput(input_components),
                                             !.entry = "__call__",
                                             !.in_process = TRUE]]
            /\ pc' = [pc EXCEPT ![t] = "preprocess"]
    /\ log' = [log EXCEPT ![t] = <<Event("enter", "__call__", RawInput(input_components))>>]
    /\ result' = [result EXCEPT ![t] = NoResult]
    /\ UNCHANGED <<status, args, inst, predict_durations, cells, callers, completed, own>>
    /\ before' = Snapshot(t)
    /\ UNCHANGED <<factory, loader, http, registry, sim, tally>>

\* lines 317-321: in api mode run_prediction() returned the predictions;
\* otherwise `output, _ = self.process(params)' unpacks the 4-tuple process()
\* returns into two names, which raises ValueError
CallReturn(t) ==
    /\ t \in callers
    /\ pc[t] = "call_return"
    /\ IF api_mode
       THEN /\ result' = [result EXCEPT ![t].outer = "returned",
                                        ![t].output = Unwrap(lv[t].predictions)]
            /\ finished' = finished + 1
            /\ measured' = [i \in DOMAIN measured |-> measured[i] + lv[t].durations[i]]
       ELSE /\ result' = [result EXCEPT ![t].outer = "ValueError"]
            /\ UNCHANGED <<finished, measured>>
    /\ lv' = [lv EXCEPT ![t] = BlankLocals]
    /\ pc' = [pc EXCEPT ![t] = "idle"]
    /\ UNCHANGED <<status, args, inst, predict_durations, cells, callers, log, remaining,
                   completed, own, config>>
    /\ UNCHANGED ext

\* lines 444-447: predict_fn(data, config) calls process(data["data"])
Request(t) ==
    /\ t \in callers
    /\ status = "built"
    /\ pc[t] = "idle"
    /\ remaining > 0
    /\ remaining' = remaining - 1
    /\ lv' = [lv EXCEPT ![t] =
                 [BlankLocals EXCEPT !.raw_input = RawInput(input_components),
                                     !.entry = "predict_fn",
                                     !.in_process = TRUE]]
    /\ pc' = [pc EXCEPT ![t] = "preprocess"]
    /\ log' = [log EXCEPT ![t] = <<Event("enter", "predict_fn", RawInput(input_components))>>]
    /\ result' = [result EXCEPT ![t] = NoResult]
    /\ UNCHANGED <<status, args, inst, predict_durations, cells, callers, completed, own>>
    /\ before' = Snapshot(t)
    /\ UNCHANGED <<factory, loader, http, registry, sim, tally>>

\* lines 448-451: the arguments of flag() are evaluated before the call, and
\* the first of them is self.interface
Flag(t) ==
    /\ t \in callers
    /\ pc[t] = "flag"
    /\ IF allow_flagging # "auto"
       THEN /\ pc' = [pc EXCEPT ![t] = "respond"]
            /\ UNCHANGED <<lv, log, result>>
       ELSE IF HasAttr("interface")
       THEN \E index \in FlagIndexes :
            /\ log' = [log EXCEPT ![t] =
                          Append(@, Event("flag", "flagging_callback",
                                          result[t].processed_output))]
            /\ result' = [result EXCEPT ![t].response.flag_index = Some(<<index>>)]
            /\ pc' = [pc EXCEPT ![t] = "respond"]
            /\ UNCHANGED lv
       ELSE /\ result' = [result EXCEPT ![t].outer = "AttributeError"]
            /\ lv' = [lv EXCEPT ![t] = BlankLocals]
            /\ pc' = [pc EXCEPT ![t] = "idle"]
            /\ UNCHANGED log
    /\ UNCHANGED <<status, args, inst, predict_durations, cells, callers, remaining,
                   completed, own>>
    /\ UNCHANGED <<ext, tally>>

\* lines 452-458
Respond(t) ==
    /\ t \in callers
    /\ pc[t] = "respond"
    /\ result' = [result EXCEPT
                    ![t].outer = "returned",
                    ![t].response = [data |-> result[t].processed_output,
                                     durations |-> result[t].durations,
                                     avg_durations |-> config.avg_durations,
                                     flag_index |-> result[t].response.flag_index]]
    /\ finished' = finished + 1
    /\ measured' = [i \in DOMAIN measured |-> measured[i] + result[t].durations[i]]
    /\ lv' = [lv EXCEPT ![t] = BlankLocals]
    /\ pc' = [pc EXCEPT ![t] = "idle"]
    /\ UNCHANGED <<status, args, inst, predict_durations, cells, callers, log, remaining,
                   completed, own, config>>
    /\ UNCHANGED ext

\* ------------------------------------------------------------ vanderpol.py
\* The values a keyword argument of simulate() may have: the key is missing,
\* None, a number, a string that is no number, a list of such scalars, or a
\* list of lists. Numbers are integers; float() and int() keep them.
Missing == [k |-> "missing", n |-> 0, items |-> <<>>]
PNone == [k |-> "none", n |-> 0, items |-> <<>>]
Num(x) == [k |-> "num", n |-> x, items |-> <<>>]
Bad == [k |-> "bad", n |-> 0, items |-> <<>>]
List(l) == [k |-> "list", n |-> 0, items |-> l]
Matrix == [k |-> "matrix", n |-> 0, items |-> <<>>]

\* params.get(key, default)
Get(v, default) == IF v = Missing THEN Num(default) ELSE v

\* float(v) / int(v) of a scalar: the value, or an exception
Parses(v) == v.k = "num"

\* lines 12-35, _to_float and _to_int: the default on None and on every
\* exception; the first element of a sequence
Coerce(v, default) ==
    IF v.k = "none" THEN default
    ELSE IF v.k = "list"
    THEN (IF v.items # <<>> /\ Parses(v.items[1]) THEN v.items[1].n ELSE default)
    ELSE IF Parses(v) THEN v.n
    ELSE default

\* a supplied value that is no number and no sequence beginning with one
Malformed(v) ==
    \/ v.k \in {"bad", "matrix"}
    \/ v.k = "list" /\ (v.items = <<>> \/ ~Parses(v.items[1]))

DefaultEvalTime == 100
DefaultIterations == 1000
DefaultMu == 1
DefaultGridSize == 8

TIterationMessage == "t_iteration too small; setting to 2"
TSpanParseMessage == "t_span could not be parsed; using [0, eval_time]"
TSpanOrderMessage == "t_span invalid (end <= start); adjusting to [0, eval_time]"
TEvalMessage == "t_eval could not be parsed; using linspace"

\* lines 59-72: the span read from the parameter, and whether reading failed
TSpanRead(v, eval_time) ==
    IF v.k \in {"missing", "none"} THEN [span |-> <<0, eval_time>>, failed |-> FALSE]
    ELSE IF v.k = "list" /\ Len(v.items) >= 2
    THEN (IF Parses(v.items[1]) /\ Parses(v.items[2])
          THEN [span |-> <<v.items[1].n, v.items[2].n>>, failed |-> FALSE]
          ELSE [span |-> <<0, eval_time>>, failed |-> TRUE])
    ELSE IF Parses(v) THEN [span |-> <<0, v.n>>, failed |-> FALSE]
    ELSE [span |-> <<0, eval_time>>, failed |-> TRUE]

\* lines 73-76
TSpanOrdered(span, eval_time) ==
    IF span[2] <= span[1] THEN <<0, eval_time>> ELSE span

\* lines 77-94: "given" when the supplied array is used, "linspace" when
\* the grid is computed, and whether np.array(..., dtype=float) raised
TEvalRead(v) ==
    IF v.k \in {"missing", "none"} THEN [use |-> "linspace", failed |-> FALSE]
    ELSE IF v.k = "bad" THEN [use |-> "linspace", failed |-> TRUE]
    ELSE IF v.k = "list" /\ \E i \in 1..Len(v.items) : ~Parses(v.items[i])
    THEN [use |-> "linspace", failed |-> TRUE]
    ELSE IF v.k = "list" /\ Len(v.items) >= 2 THEN [use |-> "given", failed |-> FALSE]
    ELSE [use |-> "linspace", failed |-> FALSE]

\* a supplied t_eval that is not a one-dimensional sequence of two or more numbers
TEvalMalformed(v) ==
    v.k \notin {"missing", "none"} /\ ~(TEvalRead(v).use = "given")

\* a supplied t_span that cannot be read as a span
TSpanMalformed(v) == TSpanRead(v, 0).failed

NoParams ==
    [eval_time |-> Missing, t_iteration |-> Missing, mu |-> Missing,
     mgrid_size |-> Missing, t_span |-> Missing, t_eval |-> Missing]

NoOut ==
    [eval_time |-> 0, t_iteration |-> 0, mu |-> 0, mgrid_size |-> 0,
     t_span |-> <<0, 0>>, t_eval |-> "", messages |-> <<>>, raised |-> FALSE]

NoSim == [pc |-> "idle", params |-> NoParams, out |-> NoOut]

\* lines 1-268: what simulate(**p) returns; every later step (grid, solver,
\* nullclines, plot) is wrapped in try/except and leaves these fields alone
Simulated(p) ==
    LET eval_time == Coerce(Get(p.eval_time, DefaultEvalTime), DefaultEvalTime)
        iterations == Coerce(Get(p.t_iteration, DefaultIterations), DefaultIterations)
        m1 == IF iterations < 2 THEN <<TIterationMessage>> ELSE <<>>
        read == TSpanRead(p.t_span, eval_time)
        m2 == IF read.failed THEN <<TSpanParseMessage>> ELSE <<>>
        m3 == IF read.span[2] <= read.span[1] THEN <<TSpanOrderMessage>> ELSE <<>>
        t_eval == TEvalRead(p.t_eval)
        m4 == IF t_eval.failed THEN <<TEvalMessage>> ELSE <<>>
    IN  [eval_time |-> eval_time,
         t_iteration |-> IF iterations < 2 THEN 2 ELSE iterations,
         mu |-> Coerce(Get(p.mu, DefaultMu), DefaultMu),
         mgrid_size |-> Coerce(Get(p.mgrid_size, DefaultGridSize), DefaultGridSize),
         t_span |-> TSpanOrdered(read.span, eval_time),
         t_eval |-> t_eval.use,
         messages |-> m1 \o m2 \o m3 \o m4,
         raised |-> FALSE]

\* the keyword arguments of the calls
ScalarArgs == {Missing, PNone, Num(-1), Num(0), Num(2), Bad, List(<<Num(2)>>), List(<<>>)}
IterationArgs == {Missing, Num(1), Num(5), Bad}
MuArgs == {Missing, Num(2), Bad}
GridSizeArgs == {Missing, Bad}
TSpanArgs ==
    {Missing, PNone, Num(0), Num(3), Bad, List(<<Num(1), Num(3)>>),
     List(<<Num(3), Num(1)>>), List(<<Num(3)>>), List(<<Bad, Num(3)>>), Matrix}
TEvalArgs ==
    {Missing, PNone, Num(1), Bad, List(<<Num(0), Num(1)>>), List(<<Num(1)>>),
     List(<<Bad, Num(1)>>), Matrix}

\* ------------------------------------------------------ the constructor call
FnArgs == {Single("f1")} \cup {ListOf(Prefix(FnNames, k)) : k \in 1..CtorMaxFns}
InputArgs == {Single("i1")} \cup {ListOf(Prefix(InNames, k)) : k \in 0..CtorMaxIn}
OutputArgs == {Single("o1")} \cup {ListOf(Prefix(OutNames, k)) : k \in 0..CtorMaxOut}
InterpArgs ==
    {InterpNone, InterpCallable, InterpOther, InterpStr("Default"), InterpStr("shap")}
    \cup {InterpList([i \in 1..k |-> "default"]) : k \in 0..(CtorMaxIn + 1)}
FlaggingArgs ==
    {PyNone, PyBool(TRUE), PyBool(FALSE), PyInt(1), PyInt(0), PyInt(2),
     PyStr("never"), PyStr("manual"), PyStr("auto"), PyStr("Auto"), PyStr("True")}
EnvValues == {EnvUnset, "auto", "True", "yes"}
ApiModeArgs == {PyNone, PyBool(TRUE), PyBool(FALSE)}

CtorArgs ==
    {[fn |-> f, inputs |-> i, outputs |-> o, repeat_outputs_per_model |-> r,
      interpretation |-> ip, allow_flagging |-> af, env_allow_flagging |-> e,
      api_mode |-> PyNone, theme |-> PyNone, examples |-> "none",
      analytics_enabled |-> PyBool(FALSE), env_analytics |-> EnvUnset] :
        f \in FnArgs, i \in InputArgs, o \in OutputArgs, r \in BOOLEAN,
        ip \in InterpArgs, af \in FlaggingArgs,
        e \in EnvValues}

NoArgs == [DefaultArgs EXCEPT !.fn = ListOf(<<>>)]

InitCtor ==
    /\ status = "new"
    /\ args = NoArgs
    /\ predict = <<>>
    /\ input_components = <<>>
    /\ output_components = <<>>
    /\ interpretation = InterpNone
    /\ predict_durations = <<>>
    /\ cells = <<>>
    /\ allow_flagging = ""
    /\ api_mode = FALSE
    /\ callers = {}
    /\ pc = <<>>
    /\ lv = <<>>
    /\ log = <<>>
    /\ result = <<>>
    /\ remaining = 0
    /\ completed = 0
    /\ own = <<>>
    /\ factory = ""
    /\ config = ConfigFile
    /\ finished = 0
    /\ measured = <<>>
    /\ loader = NoLoad
    /\ http = <<>>
    /\ before = <<>>
    /\ instances = {}
    /\ outcomes = <<>>
    /\ sim = NoSim

\* what a call of the analytics endpoint may end with: the request was not
\* made, was answered, or raised an exception of the requests library
NotSent == "not sent"
Beacons == {"sent", "ConnectionError", "ConnectTimeout", "ReadTimeout",
            "TooManyRedirects", "ChunkedEncodingError"}

\* requests.ConnectTimeout and requests.SSLError are subclasses of
\* requests.ConnectionError
CaughtByHandler == {"ConnectionError", "ConnectTimeout", "SSLError", "ReadTimeout"}

\* utils.initiated_analytics (utils.py lines 42-47): the error that leaves it
initiated_analytics(beacon) ==
    IF beacon \in {NotSent, "sent"} \/ beacon \in CaughtByHandler THEN "" ELSE beacon

\* line 314, the last statement of __init__: Interface.instances.add(self)
RegisterAlways(reg, k, error) == reg \cup {k}

Register(reg, k, error) == IF error = "" THEN reg \cup {k} ELSE reg

\* how a constructor call ended, and what it added to the registry
Outcome(error, beacon, added) ==
    [status |-> IF error = "" THEN "built" ELSE "failed", error |-> error,
     beacon |-> beacon, added |-> added]

\* the fields of a constructed instance
Built(r) ==
    /\ predict' = r.predict
    /\ input_components' = r.input_components
    /\ output_components' = r.output_components
    /\ interpretation' = r.interpretation
    /\ predict_durations' = r.predict_durations
    /\ cells' = NewCells(r.predict_durations)
    /\ allow_flagging' = r.allow_flagging
    /\ api_mode' = r.api_mode
    /\ own' = [i \in 1..Len(r.predict) |-> 0]

\* a class-level call that constructs an instance from the arguments `a':
\* Interface(**a), Interface.load(..., **a) or Interface.from_pipeline(..., **a)
Make(a, how, r) ==
    /\ status = "new"
    /\ args' = a
    /\ factory' = how
    /\ \E beacon \in (IF r.error = "" /\ r.analytics_enabled THEN Beacons ELSE {NotSent}) :
         LET error == IF r.error # "" THEN r.error ELSE initiated_analytics(beacon)
             k == Len(outcomes) + 1
         IN  /\ IF error = ""
                THEN status' = "built" /\ Built(r)
                ELSE status' = "failed"
                     /\ UNCHANGED <<inst, predict_durations, cells, own>>
             /\ instances' = Register(instances, k, error)
             /\ outcomes' = Append(outcomes,
                                   Outcome(error, beacon,
                                           Register(instances, k, error) \ instances))
    /\ UNCHANGED <<callers, pc, lv, log, result, remaining, completed>>
    /\ UNCHANGED <<tally, loader, http, before, sim>>

Construct(a) == Make(a, "Interface", InterfaceInit(a))

Load(a) == Make(a, "load", InterfaceLoad(a))

FromPipeline(a) == Make(a, "from_pipeline", InterfaceFromPipeline(a))

NextCtor ==
    /\ status = "new"
    /\ \E a \in CtorArgs, am \in ApiModeArgs :
        \/ Construct([a EXCEPT !.api_mode = am])
        \/ Load([a EXCEPT !.api_mode = am])
        \/ FromPipeline([a EXCEPT !.api_mode = am])

SpecCtor == InitCtor /\ [][NextCtor]_vars

\* ------------------------------------------------- calls on a built instance
\* the instances the calls are made on
CallArgs ==
    {[DefaultArgs EXCEPT !.fn = Single("upper"), !.inputs = Single("in_text"),
                         !.outputs = Single("out_text")]}
    \cup {[DefaultArgs EXCEPT !.fn = ListOf(Prefix(FnNames, f)),
                              !.inputs = ListOf(Prefix(InNames, 2)),
                              !.outputs = ListOf(Prefix(OutNames, o)),
                              !.repeat_outputs_per_model = r] :
            f \in 1..MaxFns, o \in 1..2, r \in BOOLEAN}

InitObserved(cs, as, n, observed) ==
    /\ \E a \in as, loaded \in BOOLEAN :
         LET r == IF loaded THEN InterfaceLoad(a) ELSE InterfaceInit(a)
         IN  /\ r.error = ""
             /\ factory = IF loaded THEN "load" ELSE "Interface"
             /\ measured = [i \in 1..Len(r.predict) |-> 0]
             /\ status = "built"
             /\ args = a
             /\ predict = r.predict
             /\ input_components = r.input_components
             /\ output_components = r.output_components
             /\ interpretation = r.interpretation
             /\ predict_durations = r.predict_durations
             /\ cells = NewCells(r.predict_durations)
             /\ allow_flagging = r.allow_flagging
             /\ api_mode = r.api_mode
             /\ own = [i \in 1..Len(r.predict) |-> 0]
             /\ before = [t \in observed |-> NewCells(r.predict_durations)]
             /\ instances = Register({}, 1, "")
             /\ outcomes = <<Outcome("", NotSent, Register({}, 1, ""))>>
             /\ sim = NoSim
    /\ callers = cs
    /\ pc = [t \in cs |-> "idle"]
    /\ lv = [t \in cs |-> BlankLocals]
    /\ log = [t \in cs |-> <<>>]
    /\ result = [t \in cs |-> NoResult]
    /\ remaining = n
    /\ completed = 0
    /\ config = ConfigFile
    /\ finished = 0
    /\ loader = NoLoad
    /\ http = <<>>

InitCalls(cs, as, n) == InitObserved(cs, as, n, {})

Threads == {1, 2}

Next ==
    \E t \in Threads :
        \/ Call(t)
        \/ Preprocess(t)
        \/ RunPrediction(t)
        \/ PredictFn(t)
        \/ Postprocess(t)
        \/ ReadSum(t)
        \/ WriteSum(t)
        \/ ReadCount(t)
        \/ WriteCount(t)
        \/ AppendAvg(t)
        \/ Return(t)

\* one caller: the calls are sequential
Init == InitCalls({1}, CallArgs, MaxCalls)

Spec == Init /\ [][Next]_vars

\* two callers share the instance
ConcArgs ==
    {[DefaultArgs EXCEPT !.fn = ListOf([i \in 1..f |-> "upper"]),
                         !.inputs = Single("in_text"),
                         !.outputs = Single("out_text")] : f \in {1, 2}}

InitConc == InitCalls(Threads, ConcArgs, Cardinality(Threads))

SpecConc == InitConc /\ [][Next]_vars

\* ---------------------------------- calls through every method of an instance
\* the instances: the text example, and functions of which one may raise
EntryFns == {<<"f1">>, <<"f1", "f2">>, <<"f_raise", "f1">>}

EntryArgs ==
    {[DefaultArgs EXCEPT !.fn = Single("upper"), !.inputs = Single("in_text"),
                         !.outputs = Single("out_text"), !.allow_flagging = af] :
            af \in {PyStr("never"), PyStr("manual"), PyStr("auto")}}
    \cup {[DefaultArgs EXCEPT !.fn = ListOf(fns),
                              !.inputs = ListOf(Prefix(InNames, 2)),
                              !.outputs = ListOf(Prefix(OutNames, o)),
                              !.allow_flagging = af] :
            fns \in EntryFns, o \in 1..2, af \in {PyStr("manual"), PyStr("auto")}}

\* the calls one caller makes in a row
EntryCalls == 2

InitEntry == InitCalls({1}, EntryArgs, EntryCalls)

NextEntry ==
    \E t \in Threads :
        \/ Call(t)
        \/ DirectCall(t)
        \/ Request(t)
        \/ Preprocess(t)
        \/ RunPrediction(t)
        \/ PredictFn(t)
        \/ Postprocess(t)
        \/ ReadSum(t)
        \/ WriteSum(t)
        \/ ReadCount(t)
        \/ WriteCount(t)
        \/ AppendAvg(t)
        \/ Return(t)
        \/ CallReturn(t)
        \/ Flag(t)
        \/ Respond(t)

SpecEntry == InitEntry /\ [][NextEntry]_vars

\* ------------------------------------- constructor calls and the registry
\* the constructor calls made in a row
MaxInstances == 2

\* the process() calls made on each instance
RegCalls == 1

TextArgs ==
    [DefaultArgs EXCEPT !.fn = Single("upper"), !.inputs = Single("in_text"),
                        !.outputs = Single("out_text")]

\* the arguments: valid ones, one invalid argument of each kind, and every
\* way of enabling or disabling the analytics call
RegArgs ==
    {[TextArgs EXCEPT !.theme = th] : th \in {PyNone, PyStr("dark"), PyStr("neon")}}
    \cup {[TextArgs EXCEPT !.examples = ex] : ex \in ExampleKinds}
    \cup {[TextArgs EXCEPT !.examples = "flat", !.inputs = ListOf(<<"i1", "i2">>)]}
    \cup {[TextArgs EXCEPT !.interpretation = InterpOther],
          [TextArgs EXCEPT !.allow_flagging = PyStr("Auto")]}
    \cup {[TextArgs EXCEPT !.analytics_enabled = ae, !.env_analytics = env] :
            ae \in {PyNone, PyBool(TRUE)}, env \in {EnvUnset, "True", "False"}}

InitReg ==
    /\ status = "new"
    /\ args = NoArgs
    /\ predict = <<>>
    /\ input_components = <<>>
    /\ output_components = <<>>
    /\ interpretation = InterpNone
    /\ predict_durations = <<>>
    /\ cells = <<>>
    /\ allow_flagging = ""
    /\ api_mode = FALSE
    /\ callers = {1}
    /\ pc = [t \in {1} |-> "idle"]
    /\ lv = [t \in {1} |-> BlankLocals]
    /\ log = [t \in {1} |-> <<>>]
    /\ result = [t \in {1} |-> NoResult]
    /\ remaining = RegCalls
    /\ completed = 0
    /\ own = <<>>
    /\ factory = ""
    /\ config = ConfigFile
    /\ finished = 0
    /\ measured = <<>>
    /\ loader = NoLoad
    /\ http = <<>>
    /\ before = <<>>
    /\ instances = {}
    /\ outcomes = <<>>
    /\ sim = NoSim

\* the caller lets go of the instance (or of the failed call) and is about
\* to construct another one
Renew ==
    /\ status \in {"built", "failed"}
    /\ \A t \in callers : pc[t] = "idle"
    /\ Len(outcomes) < MaxInstances
    /\ status' = "new"
    /\ args' = NoArgs
    /\ predict' = <<>>
    /\ input_components' = <<>>
    /\ output_components' = <<>>
    /\ interpretation' = InterpNone
    /\ predict_durations' = <<>>
    /\ cells' = <<>>
    /\ allow_flagging' = ""
    /\ api_mode' = FALSE
    /\ lv' = [t \in callers |-> BlankLocals]
    /\ log' = [t \in callers |-> <<>>]
    /\ result' = [t \in callers |-> NoResult]
    /\ remaining' = RegCalls
    /\ completed' = 0
    /\ own' = <<>>
    /\ factory' = ""
    /\ finished' = 0
    /\ UNCHANGED <<callers, pc, config, measured, loader, http, before, registry, sim>>

\* lines 41-42: the registry is a weakref.WeakSet; an instance nothing else
\* refers to any more is reclaimed and leaves it
Reclaim ==
    /\ \E k \in instances :
         /\ k < Len(outcomes) \/ status = "new"
         /\ instances' = instances \ {k}
    /\ UNCHANGED <<status, args, inst, predict_durations, cells, callers, pc, lv, log,
                   result, remaining, completed, own, factory, tally, loader, http,
                   before, outcomes, sim>>

NextReg ==
    \/ \E a \in RegArgs : Construct(a)
    \/ \E a \in RegArgs : Load(a)
    \/ \E a \in RegArgs : FromPipeline(a)
    \/ Renew
    \/ Reclaim
    \/ \E t \in Threads :
        \/ Call(t)
        \/ Preprocess(t)
        \/ RunPrediction(t)
        \/ PredictFn(t)
        \/ Postprocess(t)
        \/ ReadSum(t)
        \/ WriteSum(t)
        \/ ReadCount(t)
        \/ WriteCount(t)
        \/ AppendAvg(t)
        \/ Return(t)

SpecReg == InitReg /\ [][NextReg]_vars

\* --------------------------------------------- process() calls that may fail
\* the instances: a function that raises after another one has run, functions
\* that return too few values, and components that raise
FailArgs ==
    {[DefaultArgs EXCEPT !.fn = ListOf(fns), !.inputs = ListOf(<<"i1">>),
                         !.outputs = ListOf(Prefix(OutNames, o))] :
            fns \in {<<"f1">>, <<"f1", "f_raise">>}, o \in 1..2}
    \cup {[DefaultArgs EXCEPT !.fn = ListOf(<<"f1">>), !.inputs = ListOf(<<i>>),
                              !.outputs = ListOf(<<o>>)] :
            i \in {"i1", "i_raise"}, o \in {"o1", "o_raise"}}

InitFail == InitObserved({1}, FailArgs, EntryCalls, {1})

NextFail ==
    \E t \in Threads :
        \/ Call(t)
        \/ Preprocess(t)
        \/ RunPrediction(t)
        \/ PredictFn(t)
        \/ Postprocess(t)
        \/ ReadSum(t)
        \/ WriteSum(t)
        \/ ReadCount(t)
        \/ WriteCount(t)
        \/ AppendAvg(t)
        \/ Return(t)

SpecFail == InitFail /\ [][NextFail]_vars

\* ------------------------------------------------------- load_interface()
\* what the calls of the loaders leave alone
built == <<status, args, inst, predict_durations, cells, callers, pc, lv, log, result,
           remaining, completed, own, factory, tally, before, registry>>
iface == <<built, sim>>

\* the invocations made of a loaded function
MaxInvocations == 2

\* a name is the list of its "/"-separated parts
NameArgs == {<<"gpt2">>, <<"huggingface", "gpt2">>, <<"spaces", "user", "demo">>,
             <<"Models", "gpt2">>}
SrcArgs == {PyNone, PyStr("huggingface"), PyStr("models"), PyStr("spaces"),
            PyStr("HuggingFace"), PyStr("gradio")}
KeyArgs == {PyNone, PyStr(""), PyStr("hf_key")}

\* lines 185-192: the loader selected, or the error raised; `assert' does
\* nothing when Python runs with -O
Dispatch(name, src, optimize) ==
    LET fromName == src = PyNone
        source == IF fromName THEN name[1] ELSE src.s
        model == IF fromName THEN Tail(name) ELSE name
    IN  IF fromName /\ ~(Len(name) > 1) /\ ~optimize
        THEN [error |-> "AssertionError", handler |-> "", model_name |-> <<>>]
        ELSE IF Lower(source) \notin DOMAIN Repos /\ ~optimize
        THEN [error |-> "AssertionError", handler |-> "", model_name |-> <<>>]
        ELSE IF source \notin DOMAIN Repos
        THEN [error |-> "KeyError", handler |-> "", model_name |-> <<>>]
        ELSE [error |-> "", handler |-> Repos[source], model_name |-> model]

load_interface ==
    /\ loader.pc = "idle"
    /\ \E name \in NameArgs, src \in SrcArgs, api_key \in KeyArgs, optimize \in BOOLEAN :
         LET d == Dispatch(name, src, optimize)
         IN  loader' = [NoLoad EXCEPT !.pc = IF d.error = "" THEN "get" ELSE "failed",
                                      !.name = name, !.src = src, !.api_key = api_key,
                                      !.optimize = optimize, !.handler = d.handler,
                                      !.model_name = d.model_name, !.error = d.error]
    /\ UNCHANGED <<iface, http>>

\* the status and the JSON body the metadata endpoint may answer with: a
\* pipeline_tag of the table, one that is not in it, or none
GetStatuses == {200, 404, Unreachable}
NoTag == "<no pipeline_tag>"
NotJson == "<not JSON>"
GetBodies == {"text-generation", "image-classification", "image-segmentation", NoTag}
\* an answer without success may carry no JSON at all
ErrorBodies == GetBodies \cup {NotJson}

\* lines 19-22 and 154-155: the outcome of the metadata request
Metadata(code, body, optimize) ==
    IF code = Unreachable THEN "ConnectionError"
    ELSE IF code # 200 /\ ~optimize THEN "AssertionError"
    ELSE IF body = NotJson THEN "JSONDecodeError"
    ELSE IF body = NoTag \/ body \notin Pipelines THEN "ValueError"
    ELSE ""

\* lines 9-183
get_huggingface_interface ==
    /\ loader.pc = "get"
    /\ loader.handler = "get_huggingface_interface"
    /\ \E code \in GetStatuses :
       \E body \in (CASE code = Unreachable -> {""}
                       [] code = 200 -> GetBodies
                       [] OTHER -> ErrorBodies) :
         LET error == Metadata(code, body, loader.optimize)
         IN  /\ http' = Append(http, HttpRequest("GET",
                                   <<"api-inference.huggingface.co", "models">>
                                       \o loader.model_name,
                                   Headers(loader.api_key), <<>>))
             /\ loader' = [loader EXCEPT
                             !.reply = [status |-> code, body |-> body],
                             !.error = error,
                             !.pc = IF error = "" THEN "loaded" ELSE "failed",
                             !.info = IF error = ""
                                      THEN [present |-> TRUE, fn |-> "query_huggingface_api",
                                            task |-> body, title |-> loader.model_name,
                                            outputs |-> 1]
                                      ELSE NoInfo]
    /\ UNCHANGED iface

\* the arguments a loaded function is invoked with
ParamArgs == {<<"p1">>, <<"p2">>}
PostStatuses == {200, 503, Unreachable}

\* lines 159-169
query_huggingface_api ==
    /\ loader.pc = "loaded"
    /\ loader.info.fn = "query_huggingface_api"
    /\ loader.invocations < MaxInvocations
    /\ \E params \in ParamArgs, code \in PostStatuses :
         LET data == Payload(loader.info.task, params)
         IN  /\ http' = Append(http, HttpRequest("POST",
                                   <<"api-inference.huggingface.co", "models">>
                                       \o loader.model_name,
                                   Headers(loader.api_key), data))
             /\ loader' = [loader EXCEPT
                  !.invocations = @ + 1,
                  !.last = IF code = 200
                           THEN [NoInvocation EXCEPT
                                   !.state = "returned", !.params = params,
                                   !.output = PostprocessResponse(loader.info.task, data),
                                   !.postprocessed = TRUE,
                                   !.reply = [status |-> code, body |-> ""]]
                           ELSE [NoInvocation EXCEPT
                                   !.state = IF code = Unreachable THEN "ConnectionError"
                                             ELSE "ValueError",
                                   !.params = params,
                                   !.reply = [status |-> code, body |-> ""]]]
    /\ UNCHANGED iface

\* what the page of a space may hold: the assignment of a complete
\* configuration, no assignment, an assignment of text that is not JSON, or
\* of a JSON object without the expected keys
Pages == {"config", "no assignment", "invalid JSON", "incomplete config"}

\* lines 214-216: re.search returns None when the page has no assignment,
\* and None has no attribute `group'
ParseConfig(page) ==
    CASE page = "no assignment" -> "AttributeError"
      [] page = "invalid JSON" -> "JSONDecodeError"
      [] page = "incomplete config" -> "KeyError"
      [] OTHER -> ""

\* the number of output components the configuration declares
DeclaredOutputs == {1, 2}

\* lines 206-233
get_spaces_interface ==
    /\ loader.pc = "get"
    /\ loader.handler = "get_spaces_interface"
    /\ \E code \in GetStatuses, outputs \in DeclaredOutputs :
       \E page \in (IF code = Unreachable THEN {""} ELSE Pages) :
         LET error == IF code = Unreachable THEN "ConnectionError" ELSE ParseConfig(page)
         IN  /\ http' = Append(http, HttpRequest("GET",
                                   <<"huggingface.co", "gradioiframe">>
                                       \o loader.model_name \o <<"+">>,
                                   Absent, <<>>))
             /\ loader' = [loader EXCEPT
                             !.reply = [status |-> code, body |-> page],
                             !.error = error,
                             !.pc = IF error = "" THEN "loaded" ELSE "failed",
                             !.info = IF error = ""
                                      THEN [present |-> TRUE, fn |-> "fn",
                                            task |-> "", title |-> <<"title of config">>,
                                            outputs |-> outputs]
                                      ELSE NoInfo]
    /\ UNCHANGED iface

\* the argument lists the function of a space is invoked with
SpaceParams == {<<"p1">>, <<"p1", "p2">>, <<"p2", "p1">>}

\* the "data" lists a prediction response may carry
DataLists ==
    {<<>>, <<Single("a")>>, <<ListOf(<<"b", "c">>)>>, <<ListOf(<<>>)>>,
     <<Single("a"), ListOf(<<"b", "c">>)>>}

\* the bodies of a prediction response: a JSON object with a "data" list, a
\* JSON object without one, or no JSON
PredictBodies == {"data", "no data", NotJson}

\* lines 224-227: the unwrapping of the "data" list
SpacesUnwrapOnce(d, outputs) ==
    IF outputs # 1 THEN [error |-> "", value |-> Whole(d)]
    ELSE IF d = <<>> THEN [error |-> "IndexError", value |-> NoValue]
    ELSE [error |-> "", value |-> Element(d[1])]

SpacesUnwrap(d, outputs) ==
    IF outputs # 1 THEN [error |-> "", value |-> Whole(d)]
    ELSE IF d = <<>> THEN [error |-> "IndexError", value |-> NoValue]
    ELSE IF ~d[1].isList THEN [error |-> "", value |-> Element(d[1])]
    ELSE IF d[1].items = <<>> THEN [error |-> "IndexError", value |-> NoValue]
    ELSE [error |-> "", value |-> Inner(d[1].items[1])]

\* lines 219-228: the status of the response is never looked at
SpacesOutcome(code, body, d, outputs) ==
    IF code = Unreachable THEN [error |-> "ConnectionError", value |-> NoValue]
    ELSE IF body = NotJson THEN [error |-> "JSONDecodeError", value |-> NoValue]
    ELSE IF body = "no data" THEN [error |-> "KeyError", value |-> NoValue]
    ELSE SpacesUnwrap(d, outputs)

\* lines 219-228: fn(*data)
fn ==
    /\ loader.pc = "loaded"
    /\ loader.info.fn = "fn"
    /\ loader.invocations < MaxInvocations
    /\ \E params \in SpaceParams, code \in PostStatuses :
       \E body \in (IF code = Unreachable THEN {""} ELSE PredictBodies) :
       \E d \in (IF body = "data" THEN DataLists ELSE {<<>>}) :
         LET o == SpacesOutcome(code, body, d, loader.info.outputs)
         IN  /\ http' = Append(http, HttpRequest("POST",
                                   <<"huggingface.co", "gradioiframe">>
                                       \o loader.model_name \o <<"api", "predict">>,
                                   Absent, <<"json.dumps", "data">> \o params))
             /\ loader' = [loader EXCEPT
                  !.invocations = @ + 1,
                  !.last = [NoInvocation EXCEPT
                              !.state = IF o.error = "" THEN "returned" ELSE o.error,
                              !.params = params,
                              !.reply = [status |-> code, body |-> body],
                              !.data = d,
                              !.value = o.value]]
    /\ UNCHANGED iface

InitLoad ==
    /\ InitCtor

NextLoad ==
    \/ load_interface
    \/ get_huggingface_interface
    \/ query_huggingface_api
    \/ get_spaces_interface
    \/ fn

SpecLoad == InitLoad /\ [][NextLoad]_vars

\* ------------------------------------------------------------ simulate()
\* a caller passes keyword arguments
Supply ==
    /\ sim.pc = "idle"
    /\ \E e \in ScalarArgs, it \in IterationArgs, mu \in MuArgs, g \in GridSizeArgs,
          ts \in TSpanArgs, te \in TEvalArgs :
         sim' = [sim EXCEPT !.pc = "called",
                            !.params = [eval_time |-> e, t_iteration |-> it, mu |-> mu,
                                        mgrid_size |-> g, t_span |-> ts, t_eval |-> te]]
    /\ UNCHANGED <<built, loader, http>>

simulate ==
    /\ sim.pc = "called"
    /\ sim' = [sim EXCEPT !.pc = "returned", !.out = Simulated(sim.params)]
    /\ UNCHANGED <<built, loader, http>>

InitSim == InitCtor

NextSim ==
    \/ Supply
    \/ simulate

SpecSim == InitSim /\ [][NextSim]_vars

\* =================================================================== claims
Quiet == \A t \in callers : pc[t] = "idle"

Sum(i) == cells[predict_durations[i]].sum
Count(i) == cells[predict_durations[i]].count

\* C1: after k completed process() calls, every function's slot holds count k
\* and the sum of that function's own durations only.
C1_PerFunctionStats ==
    Quiet => \A i \in 1..Len(predict) : Count(i) = completed /\ Sum(i) = own[i]

\* C2: when n concurrent process() calls have all completed, no update is
\* lost: every function's count is n and its sum the total of its n durations.
C2_NoLostUpdate ==
    (Quiet /\ remaining = 0 /\ completed = Cardinality(callers))
        => \A i \in 1..Len(predict) : Count(i) = completed /\ Sum(i) = own[i]

\* C3: with one function, the running mean the k-th sequential call computes
\* is (d1 + ... + dk) / k: a lifetime average.
C3_LifetimeMean ==
    \A t \in callers :
        (Len(predict) = 1 /\ result[t].state = "returned")
            => LET mean == result[t].avg_durations[1]
               IN  /\ Len(result[t].avg_durations) = 1
                   /\ mean.den = completed
                   /\ mean.num * completed = own[1] * mean.den

C3_Witness ==
    /\ Len(predict) = 1
    /\ completed = 3
    /\ result[1].state = "returned"
    /\ own[1] = 4
    /\ result[1].durations = <<2>>

\* ---- the constructor's claims, about the call Interface(**args)
Called == status # "new"
Supplied == AsList(args.outputs)
NFn == Len(AsList(args.fn))
NIn == Len(AsList(args.inputs))
Repeat == args.repeat_outputs_per_model

\* C4: an output count that is not a multiple of the function count, with
\* auto-repeat disabled, makes construction fail.
C4_MismatchRejected ==
    (Called /\ ~Repeat /\ Len(Supplied) % NFn # 0) => status = "failed"

\* C5 as stated: with auto-repeat requested the outputs are replicated only
\* when their count is not a multiple of the function count; when it is a
\* multiple the final list is the supplied list.
C5_ReplicatedOnlyOnMismatch ==
    (status = "built" /\ Repeat)
        => IF Len(Supplied) % NFn # 0
           THEN output_components = ListRepeat(Supplied, NFn)
           ELSE output_components = Supplied

\* C5 amended: with auto-repeat requested the outputs are replicated once per
\* function whether or not their count is a multiple of the function count:
\* the final list has m * F entries, and it is the supplied list only when
\* auto-repeat is off, there is one function, or no output was supplied.
C5_ReplicatedWhenever ==
    status = "built"
        => /\ Repeat => Len(output_components) = Len(Supplied) * NFn
           /\ output_components = Supplied <=> (~Repeat \/ NFn = 1 \/ Supplied = <<>>)

C5_Witness ==
    /\ status = "built"
    /\ Repeat
    /\ NFn = 2
    /\ Supplied = <<"o1", "o2">>
    /\ output_components = <<"o1", "o2", "o1", "o2">>

\* C6: with auto-repeat enabled and m outputs for F functions, m not a
\* multiple of F, the final list has m * F entries in function-major order:
\* position f * m + o holds supplied output o.
C6_FunctionMajor ==
    (status = "built" /\ Repeat /\ Len(Supplied) % NFn # 0)
        => /\ Len(output_components) = Len(Supplied) * NFn
           /\ \A f \in 0..(NFn - 1), o \in 0..(Len(Supplied) - 1) :
                  output_components[f * Len(Supplied) + o + 1] = Supplied[o + 1]

C6_Witness ==
    /\ status = "built"
    /\ Repeat
    /\ NFn = 3
    /\ Supplied = <<"o1", "o2">>
    /\ output_components = <<"o1", "o2", "o1", "o2", "o1", "o2">>

FlaggingModes == {"never", "manual", "auto"}

\* the allow_flagging value in effect: the argument, or the environment's
\* default when the argument is absent
GivenFlagging ==
    IF args.allow_flagging = PyNone
    THEN PyStr(GetEnv(args.env_allow_flagging, "manual"))
    ELSE args.allow_flagging

C7_WitnessNumber ==
    /\ status = "built"
    /\ args.allow_flagging = PyInt(1)
    /\ allow_flagging = "manual"

\* C8: an interpretation list whose length differs from the number of input
\* components makes construction fail; an interpretation string becomes one
\* entry per input component.
C8_InterpretationLength ==
    Called =>
        /\ (args.interpretation.kind = "list" /\ Len(args.interpretation.items) # NIn)
                => status = "failed"
        /\ (status = "built" /\ args.interpretation.kind = "str")
                => /\ interpretation.kind = "list"
                   /\ Len(interpretation.items) = NIn

\* ---- the pipeline's claims, about the calls a process() invocation makes
Ops(t, op) == SelectSeq(log[t], LAMBDA e : e.op = op)

Returned(t) == t \in callers /\ result[t].state = "returned"

\* each phase of the log is over before the next one begins
InOrder(t, first, second) ==
    \A a, b \in 1..Len(log[t]) :
        (log[t][a].op = first /\ log[t][b].op = second) => a < b

PreprocessedOnce(t) ==
    /\ Ops(t, "preprocess") = [i \in 1..Len(input_components) |->
            Event("preprocess", input_components[i], <<RawInput(input_components)[i]>>)]
    /\ result[t].processed_input = [i \in 1..Len(input_components) |->
            preprocess(input_components[i], RawInput(input_components)[i])]

CalledOnceWith(t, xs) ==
    Ops(t, "call") = [f \in 1..Len(predict) |-> Event("call", predict[f], xs)]

\* C9 as stated: in a process() call every input is preprocessed once, in
\* order, before any function runs; every function runs once, in order, on
\* the list of the preprocessed values; postprocessing follows the last
\* function.
C9_PipelineOrderPreprocessedArgs ==
    \A t \in Threads :
        /\ t \in callers => InOrder(t, "preprocess", "call") /\ InOrder(t, "call", "postprocess")
        /\ Returned(t) => PreprocessedOnce(t) /\ CalledOnceWith(t, result[t].processed_input)

\* C9 amended: the same, except that the list every function receives is the
\* list of the preprocessed values when apiMode is false and the list of
\* their serialized forms when apiMode is true.
C9_PipelineOrder ==
    \A t \in Threads :
        /\ t \in callers => InOrder(t, "preprocess", "call") /\ InOrder(t, "call", "postprocess")
        /\ Returned(t) =>
              /\ PreprocessedOnce(t)
              /\ CalledOnceWith(t,
                    IF api_mode
                    THEN [i \in 1..Len(input_components) |->
                             serialize(input_components[i], result[t].processed_input[i], FALSE)]
                    ELSE result[t].processed_input)

C9_Witness ==
    /\ Returned(1)
    /\ ~api_mode
    /\ Len(predict) = 2
    /\ Len(input_components) = 2
    /\ Len(Ops(1, "postprocess")) = 2

\* the functions' results of a call, concatenated in function order
Results(t) == Flatten([k \in 1..Len(Ops(t, "return")) |-> Ops(t, "return")[k].arg])

UpperExample(t) ==
    (predict = <<"upper">> /\ ~api_mode)
        => /\ result[t].processed_output = <<<<"ABC">>>>
           /\ Len(result[t].durations) = 1
           /\ result[t].processed_input = <<<<"abc">>>>
           /\ result[t].predictions = <<<<"ABC">>>>

\* C10 as stated: process() returns (processedOutputs, durations,
\* processedInputs, rawPredictions): one duration per function, the
\* predictions are the functions' results concatenated in function order,
\* and output j is postprocess_j of prediction j; the upper() example.
C10_ReturnTuplePostprocessedAll ==
    \A t \in Threads :
        Returned(t) =>
            /\ Len(result[t].durations) = Len(predict)
            /\ result[t].predictions = Results(t)
            /\ Len(result[t].processed_output) = Len(output_components)
            /\ \A j \in 1..Len(output_components) :
                  result[t].processed_output[j]
                      = postprocess(output_components[j], result[t].predictions[j])
            /\ UpperExample(t)

\* C10 amended: the same, except that a null prediction gives a null output
\* (postprocess is applied to the non-null predictions only), and that when
\* apiMode is true the k-th of the functions' results is passed through
\* deserialize of output component k before it becomes prediction k.
C10_ReturnTuple ==
    \A t \in Threads :
        Returned(t) =>
            /\ Len(result[t].durations) = Len(predict)
            /\ Len(result[t].predictions) = Len(Results(t))
            /\ \A k \in 1..Len(Results(t)) :
                  result[t].predictions[k]
                      = IF api_mode THEN deserialize(output_components[k], Results(t)[k])
                        ELSE Results(t)[k]
            /\ Len(result[t].processed_output) = Len(output_components)
            /\ \A j \in 1..Len(output_components) :
                  result[t].processed_output[j]
                      = IF result[t].predictions[j] = None THEN None
                        ELSE postprocess(output_components[j], result[t].predictions[j])
            /\ UpperExample(t)

C10_Witness ==
    /\ Returned(1)
    /\ predict = <<"upper">>
    /\ ~api_mode
    /\ result[1].processed_output = <<<<"ABC">>>>
    /\ result[1].predictions = <<<<"ABC">>>>

C10_WitnessSequences ==
    /\ Returned(1)
    /\ Len(predict) = 2
    /\ Len(output_components) = 4
    /\ None \in Range(result[1].predictions)

\* the output positions whose prediction is not None, in order
NonNull(t) ==
    SelectSeq([j \in 1..Len(output_components) |-> j],
              LAMBDA j : result[t].predictions[j] # None)

\* C11: in a process() call, for every output position j whose prediction is
\* None, postprocess of component j is not called and processed output j is
\* None; postprocess is called exactly once for every other position.
C11_NullPassThrough ==
    \A t \in Threads :
        Returned(t) =>
            /\ \A j \in 1..Len(output_components) :
                  result[t].predictions[j] = None => result[t].processed_output[j] = None
            /\ Len(Ops(t, "postprocess")) = Len(NonNull(t))
            /\ \A k \in 1..Len(NonNull(t)) :
                  Ops(t, "postprocess")[k]
                      = Event("postprocess", output_components[NonNull(t)[k]],
                              <<result[t].predictions[NonNull(t)[k]]>>)

C11_Witness ==
    /\ Returned(1)
    /\ Len(output_components) = 2
    /\ result[1].predictions[1] = None
    /\ result[1].predictions[2] # None
    /\ result[1].processed_output[1] = None
    /\ Len(Ops(1, "postprocess")) = 1

\* ---- the claims about __call__, run_prediction and predict_fn
\* the method the caller's current (or last) invocation entered
Entry(t) == IF log[t] = <<>> THEN "" ELSE log[t][1].who

\* run_prediction() was invoked by __call__, with called_directly=True
Direct(t) == Entry(t) = "__call__" /\ api_mode

\* the processed_input argument of run_prediction()
RunInput(t) ==
    IF Direct(t) THEN RawInput(input_components)
    ELSE PreprocessAll(input_components, RawInput(input_components))

\* C12: when apiMode is true, run_prediction(processed_input, called_directly)
\* calls serialize(value, called_directly) once on each input component, in
\* order, before any function runs; calls each function with the serialized
\* values; calls no preprocess or postprocess itself; and passes the k-th
\* result overall (across the functions, in order) through deserialize of
\* output component k. When apiMode is false it calls neither serialize nor
\* deserialize.
C12_ApiModeRunPrediction ==
    \A t \in Threads :
        t \in callers =>
            IF api_mode
            THEN /\ InOrder(t, "serialize", "call")
                 /\ InOrder(t, "preprocess", "serialize")
                 /\ InOrder(t, "deserialize", "postprocess")
                 /\ Ops(t, "call") # <<>> =>
                        Ops(t, "serialize") =
                            [i \in 1..Len(input_components) |->
                                Event("serialize", input_components[i], <<RunInput(t)[i]>>)]
                 /\ \A k \in 1..Len(Ops(t, "call")) :
                        Ops(t, "call")[k] =
                            Event("call", predict[k],
                                  [i \in 1..Len(input_components) |->
                                      serialize(input_components[i], RunInput(t)[i], Direct(t))])
                 /\ Direct(t) => Ops(t, "preprocess") = <<>> /\ Ops(t, "postprocess") = <<>>
                 /\ Ops(t, "deserialize") =
                        [k \in 1..Len(Results(t)) |->
                            Event("deserialize", output_components[k], <<Results(t)[k]>>)]
                 /\ (Direct(t) /\ result[t].outer = "returned") =>
                        result[t].output =
                            Unwrap([k \in 1..Len(Results(t)) |->
                                       deserialize(output_components[k], Results(t)[k])])
            ELSE Ops(t, "serialize") = <<>> /\ Ops(t, "deserialize") = <<>>

C12_Witness ==
    /\ api_mode
    /\ Direct(1)
    /\ result[1].outer = "returned"
    /\ Len(predict) = 2
    /\ Len(Ops(1, "serialize")) = 2
    /\ Len(Ops(1, "deserialize")) = 2
    /\ Ops(1, "deserialize")[2].who = "o2"

C13_WitnessLoad ==
    /\ status = "built"
    /\ factory = "load"
    /\ args.api_mode = PyBool(FALSE)
    /\ api_mode

\* the caller's predict_fn() invocation is over, and its process() returned
Responded(t) ==
    /\ t \in callers
    /\ Entry(t) = "predict_fn"
    /\ pc[t] = "idle"
    /\ result[t].state = "returned"

\* C14: predict_fn on an instance whose flagging mode is auto calls the
\* flagging sink's flag exactly once, after process() returned, and its
\* response's flag_index is the value flag returned; in mode never or manual
\* flag is not called and flag_index is null.
C14_FlagOnlyInAuto ==
    \A t \in Threads :
        Responded(t) =>
            /\ result[t].outer = "returned"
            /\ IF allow_flagging = "auto"
               THEN /\ Len(Ops(t, "flag")) = 1
                    /\ log[t][Len(log[t])].op = "flag"
                    /\ result[t].response.flag_index.present
               ELSE /\ Ops(t, "flag") = <<>>
                    /\ result[t].response.flag_index = Absent

\* C15: the response predict_fn builds carries avg_durations equal to the
\* running means its process() call just computed, not absent or stale.
C15_ResponseAvgDurations ==
    \A t \in Threads :
        (Responded(t) /\ result[t].outer = "returned")
            => result[t].response.avg_durations = Some(result[t].avg_durations)

\* C16: every completed invocation, whether made through process(),
\* predict_fn(), or a direct call of an apiMode instance (run_prediction),
\* increases every function's count by one and adds its measured duration
\* to that function's sum.
C16_StatsOnEveryCall ==
    (Quiet /\ finished = EntryCalls - remaining)
        => \A i \in 1..Len(predict) : Count(i) = finished /\ Sum(i) = measured[i]

\* C17: an error a wrapped function raises during process() or
\* run_prediction() is not caught, wrapped or replaced: the call ends with
\* that error, returns no result, and invokes no later function.
C17_FunctionErrorPropagates ==
    \A t \in Threads :
        (t \in callers /\ Ops(t, "raise") # <<>>) =>
            /\ log[t][Len(log[t])].op = "raise"
            /\ Len(Ops(t, "raise")) = 1
            /\ predict[Len(Ops(t, "call"))] = log[t][Len(log[t])].who
            /\ Len(Ops(t, "return")) = Len(Ops(t, "call")) - 1
            /\ Ops(t, "postprocess") = <<>>
            /\ pc[t] = "idle"
            /\ result[t] = Raised("FnError")

C17_Witness ==
    /\ 1 \in callers
    /\ predict = <<"f_raise", "f1">>
    /\ Ops(1, "raise") # <<>>
    /\ Len(Ops(1, "call")) = 1
    /\ result[1].outer = "FnError"
    /\ result[1].processed_output = <<>>

\* ---- the claims about the loaders of external.py
Gets == SelectSeq(http, LAMBDA r : r.method = "GET")
Posts == SelectSeq(http, LAMBDA r : r.method = "POST")

\* a registry-based load call has ended, and the function it may have
\* produced was not invoked yet
RegistryLoadOver ==
    /\ loader.handler = "get_huggingface_interface"
    /\ loader.pc \in {"loaded", "failed"}
    /\ loader.invocations = 0

\* the error of line 155, "Unsupported pipeline type"
UnsupportedTaskType == "ValueError"

\* C18: a registry-based load call issues exactly one metadata GET and no
\* inference POST before it returns; if the GET is not successful, or the
\* pipeline_tag is absent or not a key of the task table, the call fails with
\* the unsupported-task error, returns no descriptor and issues no further
\* request.
C18_OneGetOrUnsupported ==
    RegistryLoadOver =>
        /\ Len(Gets) = 1
        /\ Posts = <<>>
        /\ (/\ loader.reply.status # Unreachable
            /\ loader.reply.status # 200 \/ loader.reply.body \notin Pipelines)
              => /\ loader.pc = "failed"
                 /\ loader.error = UnsupportedTaskType
                 /\ ~loader.info.present

\* the last `n' elements of a sequence
Suffix(sq, n) == SubSeq(sq, Len(sq) - n + 1, Len(sq))

\* C19: each invocation of the function produced by registry-based loading
\* issues exactly one POST carrying the task's preprocessed payload; the
\* request has an Authorization: Bearer header if and only if a credential
\* was supplied at load time; on any status other than 200 the invocation
\* fails with an error and the task's postprocess is not applied.
C19_OnePostPerInvocation ==
    loader.info.fn = "query_huggingface_api" =>
        /\ Len(Posts) = loader.invocations
        /\ \A k \in 1..Len(Posts) :
              /\ Posts[k].auth.present <=> loader.api_key # PyNone
              /\ Posts[k].auth.present
                    => Posts[k].auth.value = <<"Bearer", loader.api_key.s>>
        /\ loader.last.state # "none" =>
              LET payload == <<"preprocess", loader.info.task>> \o loader.last.params
              IN  /\ http[Len(http)].method = "POST"
                  /\ Suffix(http[Len(http)].data, Len(payload)) = payload
                  /\ IF loader.last.reply.status = 200
                     THEN loader.last.state = "returned" /\ loader.last.postprocessed
                     ELSE /\ loader.last.state \notin {"none", "returned"}
                          /\ ~loader.last.postprocessed
                          /\ loader.last.output = <<>>

C19_Witness ==
    /\ loader.info.fn = "query_huggingface_api"
    /\ loader.api_key = PyStr("hf_key")
    /\ loader.invocations = 2
    /\ Len(Posts) = 2
    /\ loader.last.reply.status = 503
    /\ loader.last.state = "ValueError"

C19_WitnessNoKey ==
    /\ loader.info.fn = "query_huggingface_api"
    /\ loader.api_key = PyNone
    /\ loader.invocations = 1
    /\ loader.last.state = "returned"
    /\ ~Posts[1].auth.present

\* the one error of lines 214-216 that tells of a descriptor that cannot be
\* parsed is json.loads' own; the module defines no error kind
DescriptorParseError == "JSONDecodeError"

\* C20: scrape-based loading of a page that lacks the `window.config = ...;'
\* assignment, or whose assigned text is not valid JSON, fails with the
\* descriptor-parse error kind, distinguishable from the other error kinds,
\* and never returns a descriptor.
C20_DescriptorParseError ==
    (/\ loader.handler = "get_spaces_interface"
     /\ loader.pc \in {"loaded", "failed"}
     /\ loader.reply.body \in {"no assignment", "invalid JSON"})
        => /\ loader.pc = "failed"
           /\ loader.error = DescriptorParseError
           /\ ~loader.info.present

\* an invocation of the function produced by scrape-based loading is over
SpaceInvoked == loader.info.fn = "fn" /\ loader.last.state # "none"

\* C21: a prediction call through the function produced by scrape-based
\* loading whose response has a non-success status ends in an error; it
\* never returns a value as if the prediction had succeeded.
C21_SpaceStatusChecked ==
    (SpaceInvoked /\ loader.last.reply.status # 200)
        => loader.last.state # "returned" /\ loader.last.value = NoValue

\* C22: the function produced by scrape-based loading POSTs {"data":
\* [ordered arguments]} and returns, from the response's "data" list D: D
\* when more than one output component is declared; D[0] when exactly one
\* is declared and D[0] is not a list; D[0][0] when exactly one is declared
\* and D[0] is a list.
C22_SpaceUnwrap ==
    SpaceInvoked =>
        LET d == loader.last.data
            outputs == loader.info.outputs
            answered == loader.last.reply.body = "data"
        IN  /\ http[Len(http)].method = "POST"
            /\ http[Len(http)].data = <<"json.dumps", "data">> \o loader.last.params
            /\ (answered /\ outputs > 1)
                  => loader.last.state = "returned" /\ loader.last.value = Whole(d)
            /\ (answered /\ outputs = 1 /\ d # <<>> /\ ~d[1].isList)
                  => loader.last.state = "returned" /\ loader.last.value = Element(d[1])
            /\ (answered /\ outputs = 1 /\ d # <<>> /\ d[1].isList /\ d[1].items # <<>>)
                  => loader.last.state = "returned" /\ loader.last.value = Inner(d[1].items[1])

C22_Witness ==
    /\ SpaceInvoked
    /\ loader.info.outputs = 1
    /\ loader.last.params = <<"p2", "p1">>
    /\ loader.last.data = <<ListOf(<<"b", "c">>)>>
    /\ loader.last.value = Inner("b")

C22_WitnessWhole ==
    /\ SpaceInvoked
    /\ loader.info.outputs = 2
    /\ loader.last.data = <<Single("a"), ListOf(<<"b", "c">>)>>
    /\ loader.last.value.level = 0

\* ---- the claims about calls on a built instance, continued
\* C26: calling a locally constructed instance (apiMode false) directly
\* completes and returns the postprocessed outputs of process(): the single
\* value when there is exactly one output, otherwise the list.
C26_LocalCallReturns ==
    \A t \in Threads :
        (/\ t \in callers
         /\ Entry(t) = "__call__"
         /\ ~api_mode
         /\ pc[t] = "idle"
         /\ result[t].state = "returned")
            => /\ result[t].outer = "returned"
               /\ result[t].output = Unwrap(result[t].processed_output)

\* the caller's last process() call has failed
Failed(t) ==
    /\ t \in DOMAIN before
    /\ pc[t] = "idle"
    /\ result[t].state \notin {"none", "returned"}

\* C27: when a process() call fails (a preprocess, a wrapped function or a
\* postprocess raises), durationStats is exactly as it was before the call,
\* also for the functions that had already run in that call.
C27_FailedCallLeavesStats ==
    \A t \in Threads : Failed(t) => cells = before[t]

C27_Witness ==
    /\ Failed(1)
    /\ predict = <<"f1", "f_raise">>
    /\ result[1].state = "FnError"
    /\ Len(Ops(1, "return")) = 1
    /\ completed = 1
    /\ \E c \in DOMAIN cells : cells[c].count > 0

C27_WitnessPostprocess ==
    /\ Failed(1)
    /\ output_components = <<"o_raise">>
    /\ result[1].state = "ComponentError"
    /\ Ops(1, "return") # <<>>
    /\ completed = 1

C27_WitnessPreprocess ==
    /\ Failed(1)
    /\ input_components = <<"i_raise">>
    /\ result[1].state = "ComponentError"
    /\ Ops(1, "call") = <<>>
    /\ completed = 1

\* C29: process() and run_prediction() leave the function list, the input
\* list, the output list, apiMode and the flagging mode as construction
\* fixed them; only durationStats changes.
C29_ConfigurationFixed ==
    status = "built" =>
        LET r == IF factory = "load" THEN InterfaceLoad(args) ELSE InterfaceInit(args)
        IN  /\ predict = r.predict
            /\ input_components = r.input_components
            /\ output_components = r.output_components
            /\ api_mode = r.api_mode
            /\ allow_flagging = r.allow_flagging
            /\ interpretation = r.interpretation
            /\ predict_durations = r.predict_durations

C29_Witness ==
    /\ Quiet
    /\ api_mode
    /\ remaining = 0
    /\ Len(predict) = 2
    /\ Entry(1) = "__call__"
    /\ result[1].outer = "returned"
    /\ cells # NewCells(predict_durations)

\* ---- the claims about the loaders of external.py, continued
\* C28: when src is absent the source is the part of the name before the
\* first '/' and the model name is the remainder (a name without '/'
\* fails); and every source the case-insensitive membership check accepts
\* (such as "HuggingFace" or "Spaces") selects the loader registered for it
\* rather than failing with a lookup error.
C28_SourceSelection ==
    loader.pc # "idle" =>
        LET fromName == loader.src = PyNone
            source == IF fromName THEN loader.name[1] ELSE loader.src.s
            model == IF fromName THEN Tail(loader.name) ELSE loader.name
        IN  IF fromName /\ Len(loader.name) = 1
            THEN loader.handler = "" /\ loader.error # ""
            ELSE Lower(source) \in DOMAIN Repos =>
                    /\ loader.handler = Repos[Lower(source)]
                    /\ loader.model_name = model
                    /\ loader.error \notin {"KeyError", "AssertionError"}

\* ---- the claims about construction, continued
\* C23: a failure of the analytics call made during construction, whatever
\* its kind (a connection error, a timeout, or any other request or
\* transport error), is caught and discarded: construction completes and
\* returns the orchestrator.
C23_BeaconFailureDiscarded ==
    \A k \in 1..Len(outcomes) :
        outcomes[k].beacon \notin {NotSent, "sent"}
            => outcomes[k].status = "built" /\ outcomes[k].error = ""

\* C25: the registry contains an orchestrator only if its construction
\* completed; a construction that fails (bad interpretation, theme, examples
\* or flagging mode) adds nothing, and every construction that completes
\* adds exactly that instance; the calls on an instance leave the registry
\* alone.
C25_RegistryOnlyBuilt ==
    /\ \A k \in instances : k \in 1..Len(outcomes) /\ outcomes[k].status = "built"
    /\ \A k \in 1..Len(outcomes) :
          outcomes[k].added = IF outcomes[k].status = "built" THEN {k} ELSE {}
    /\ \A t \in callers :
          (status = "built" /\ pc[t] # "idle") => Len(outcomes) \in instances

C25_Witness ==
    /\ Len(outcomes) = 2
    /\ outcomes[1].status = "failed"
    /\ outcomes[2].status = "built"
    /\ instances = {2}
    /\ completed = 1

C25_WitnessFailed ==
    /\ Len(outcomes) = 2
    /\ outcomes[1].status = "built"
    /\ outcomes[2].status = "failed"
    /\ args.theme = PyStr("neon")
    /\ instances = {1}

\* ---- the claims about the simulation script
\* the message that records the fallback of a parameter
Records(name) ==
    CASE name = "t_span" -> {TSpanParseMessage, TSpanOrderMessage}
      [] name = "t_eval" -> {TEvalMessage}
      [] name = "t_iteration" -> {TIterationMessage}
      [] OTHER -> {}

\* the parameters that were supplied malformed and replaced by a default
FellBack ==
    {name \in {"eval_time", "t_iteration", "mu", "mgrid_size"} :
        Malformed(sim.params[name])}
    \cup (IF TSpanMalformed(sim.params.t_span) THEN {"t_span"} ELSE {})
    \cup (IF TEvalMalformed(sim.params.t_eval) THEN {"t_eval"} ELSE {})

\* C24: every time a supplied parameter of the simulation script is
\* malformed and a default is used in its place (a non-numeric mu,
\* eval_time, mgrid_size or t_iteration, or a t_eval that is not a
\* one-dimensional sequence of at least 2 values), an entry for that
\* fallback is in the returned messages list, and no error is raised.
C24_FallbackRecorded ==
    sim.pc = "returned" =>
        /\ ~sim.out.raised
        /\ \A name \in FellBack :
              \E i \in 1..Len(sim.out.messages) : sim.out.messages[i] \in Records(name)

\* C30: for every parameter set, the returned t_span satisfies
\* t_span[1] > t_span[0], also when eval_time is zero or negative or when
\* the supplied t_span has end <= start.
C30_SpanIncreasing ==
    sim.pc = "returned" => sim.out.t_span[2] > sim.out.t_span[1]

====
